---- MODULE Spec2Model ----
(***************************************************************************)
(* Client-side coordination logic of the book-recommendation frontend:     *)
(*   - the search coordinator   (hooks/useBookSearch.tsx, URL-sync variant)*)
(*   - the auth session cache   (hooks/AuthContext.tsx)                    *)
(*   - the favorite toggle      (components/FavoriteButton.tsx)            *)
(*   - the user menu's logout   (UserMenu.handleLogout)                    *)
(*   - the signup form          (RegisterForm)                             *)
(*   - the admin dashboard      (dashboard hooks, DashboardPage, AlertsCard)*)
(*   - the search bar           (components/SearchBar.tsx)                 *)
(*   - the server side          (logout route, middleware, LoginPage)      *)
(* Strings are sequences of one-character strings, so that toLowerCase,    *)
(* trim, includes, String/Number and encodeURIComponent are computed.      *)
(***************************************************************************)
EXTENDS Integers, Sequences, FiniteSets, TLC

VARIABLES
  \* ---- search coordinator (useBookSearch) ----
  books,          \* useState<Book[]>([])
  booksReq,       \* position of loadBooks(): "pending" | "done" | "failed"
  searchQuery,    \* useState('')
  selectedBook,   \* useState<Book | null>(null); NoBook stands for null
  similarBooks,   \* useState<SimilarBook[]>([])
  loading,        \* useState(false)
  isInitialized,  \* useState(false)
  url,            \* committed query parameters (useSearchParams)
  navQueue,       \* router.push targets not yet committed
  simReqs,        \* similarity fetches in flight, in issue order
  \* ---- auth session, client data cache, favorite toggle, user menu ----
  user,           \* AuthProvider: useState<User | null>; NoUser stands for null
  authLoading,    \* AuthProvider: useState(false)
  authReqs,       \* fetchUser calls in flight; each holds the `user` its closure captured
  cache,          \* client data cache: favorite-check entries
  checkReqs,      \* favorite-check fetches in flight
  optimisticFavorite, \* FavoriteButton: useState(initialIsFavorite)
  initialIsFavorite,  \* FavoriteButton prop
  isAnimating,    \* FavoriteButton: useState(false)
  mutation,       \* add/remove favorite request of the button: NoMutation when none is pending
  pathname,       \* window.location.pathname
  pushed,         \* last target handed to router.push by the favorite button or the user menu
  isLoggingOut,   \* UserMenu: useState(false)
  logoutReq,      \* POST /api/auth/logout of handleLogout: "idle" | "pending"
  authMounted,    \* the AuthProvider's mount effect has run
  \* ---- signup form (RegisterForm) ----
  password,       \* useState("")
  confirmPassword,\* useState("")
  error,          \* useState("")
  success,        \* useState("")
  isPending,      \* useTransition: POST /api/auth/signup in flight
  redirectTimer,  \* the setTimeout(() => router.push("/login"), 1500) is pending
  formMounted,    \* the RegisterForm is mounted
  \* ---- admin dashboard (DashboardPage, AlertsCard) ----
  queries,        \* the four polled dashboard queries, by key
  alerts,         \* AlertsCard prop: the list of alerts
  alertsLoading,  \* AlertsCard prop: isLoading
  card,           \* what the AlertsCard rendered last
  \* ---- search bar (SearchBar, SearchDropdown) ----
  isDropdownVisible, \* SearchBar: useState(false)
  selectedIndex,  \* SearchDropdown: useState(0)
  \* ---- server side: cookie, route handlers, login page ----
  cookie,         \* the browser's access_token cookie: "none" | "valid" | "stale"
  held,           \* what the client holds about the session
  pendingNav,     \* the navigation the browser is performing
  rendered,       \* the page rendered last
  routePos,       \* position of the POST /api/auth/logout handler
  result,         \* the response that handler returned last
  \* ---- label of the handler that ran last ----
  lastAction

searchVars == <<books, booksReq, searchQuery, selectedBook, similarBooks, loading,
                isInitialized, url, navQueue, simReqs>>
authVars   == <<user, authLoading, authReqs, cache, checkReqs, optimisticFavorite,
                initialIsFavorite, isAnimating, mutation, pathname, pushed,
                isLoggingOut, logoutReq, authMounted>>
signupVars == <<password, confirmPassword, error, success, isPending, redirectTimer,
                formMounted>>
dashVars   == <<queries, alerts, alertsLoading, card>>
barVars    == <<isDropdownVisible, selectedIndex>>
serverVars == <<cookie, held, pendingNav, rendered, routePos, result>>
pageVars   == <<dashVars, barVars, serverVars>>
vars       == <<searchVars, authVars, signupVars, pageVars, lastAction>>

(***************************************************************************)
(* Bounds                                                                  *)
(***************************************************************************)
MaxInFlight  == 2    \* similarity fetches in flight at once
MaxNav       == 1    \* router.push calls not yet committed
MaxQueryLen  == 2    \* length of a typed query in the filter specification
MaxBooks     == 11   \* size of the largest collection in the filter specification
MaxAuthReqs  == 2    \* session checks in flight at once

(***************************************************************************)
(* Strings                                                                 *)
(***************************************************************************)
Chars == {"d", "D", "a", " "}

\* String.prototype.toLowerCase on one character
LowerChar(c) == IF c = "D" THEN "d" ELSE IF c = "A" THEN "a" ELSE c

toLowerCase(s) == [i \in 1..Len(s) |-> LowerChar(s[i])]

RECURSIVE trimStart(_)
trimStart(s) == IF s # <<>> /\ Head(s) = " " THEN trimStart(Tail(s)) ELSE s

RECURSIVE trimEnd(_)
trimEnd(s) == IF s # <<>> /\ s[Len(s)] = " " THEN trimEnd(SubSeq(s, 1, Len(s) - 1)) ELSE s

\* String.prototype.trim
trim(s) == trimEnd(trimStart(s))

\* s starts with p
RECURSIVE startsWith(_, _)
startsWith(s, p) ==
  IF p = <<>> THEN TRUE
  ELSE IF s = <<>> THEN FALSE
  ELSE Head(s) = Head(p) /\ startsWith(Tail(s), Tail(p))

\* String.prototype.includes
RECURSIVE includes(_, _)
includes(s, p) ==
  IF startsWith(s, p) THEN TRUE
  ELSE IF s = <<>> THEN FALSE
  ELSE includes(Tail(s), p)

RECURSIVE StringsUpTo(_)
StringsUpTo(n) ==
  IF n = 0 THEN {<<>>}
  ELSE LET shorter == StringsUpTo(n - 1)
       IN shorter \cup {Append(s, c) : s \in {t \in shorter : Len(t) = n - 1}, c \in Chars}

Digits == <<"0", "1", "2", "3", "4", "5", "6", "7", "8", "9">>

\* String(n) for 0 <= n <= 99
String(n) == IF n < 10 THEN <<Digits[n + 1]>>
             ELSE <<Digits[(n \div 10) + 1], Digits[(n % 10) + 1]>>

NaN == -1

DigitValue(c) == IF \E d \in 1..10 : Digits[d] = c
                 THEN (CHOOSE d \in 1..10 : Digits[d] = c) - 1
                 ELSE NaN

\* Number(s) for a non-empty parameter value: NaN unless every character is a digit
RECURSIVE NumberFrom(_, _)
NumberFrom(s, acc) ==
  IF s = <<>> THEN acc
  ELSE IF DigitValue(Head(s)) = NaN THEN NaN
  ELSE NumberFrom(Tail(s), acc * 10 + DigitValue(Head(s)))

Number(s) == NumberFrom(s, 0)

(***************************************************************************)
(* Books                                                                   *)
(***************************************************************************)
NoBook == [id |-> 0, title |-> <<>>, author |-> <<>>]

Titles  == << <<"D", "a">>, <<"a", " ", "d">>, <<"a", "a">> >>
Authors == << <<"a">>,      <<"D", " ">>,      <<"d", "D">> >>

\* the i-th book of the backend catalog
BookAt(i) == [id |-> i, title |-> Titles[((i - 1) % 3) + 1], author |-> Authors[((i - 1) % 3) + 1]]

CollectionOf(n) == [i \in 1..n |-> BookAt(i)]

\* the collection GET /api/books answers with for the search page
Catalog == CollectionOf(3)

SimilarLimit == 12
MaxCandidates == 10

\* the list GET /api/books/{id}/similar answers with
SimilarOf(id) == << [id |-> (id % 3) + 1, similarity_score |-> 1] >>

(***************************************************************************)
(* filteredBooks / showDropdown                                            *)
(***************************************************************************)
bookMatches(book, q) ==
  \/ includes(toLowerCase(book.title), toLowerCase(q))
  \/ includes(toLowerCase(book.author), toLowerCase(q))

sliceFirst(s, n) == SubSeq(s, 1, IF Len(s) < n THEN Len(s) ELSE n)

\* FilteredBooks comparing the raw strings, without toLowerCase
FilteredBooks_CaseSensitive(bks, q) ==
  IF trim(q) = <<>> THEN <<>>
  ELSE sliceFirst(SelectSeq(bks, LAMBDA b : includes(b.title, q) \/ includes(b.author, q)),
                  MaxCandidates)

FilteredBooks(bks, q) ==
  IF trim(q) = <<>> THEN <<>>
  ELSE sliceFirst(SelectSeq(bks, LAMBDA b : bookMatches(b, q)), MaxCandidates)

filteredBooks == FilteredBooks(books, searchQuery)

showDropdown == Len(filteredBooks) > 0 /\ trim(searchQuery) # <<>> /\ selectedBook = NoBook

(***************************************************************************)
(* URL query parameters                                                    *)
(***************************************************************************)
EmptyUrl == [k \in {} |-> <<>>]

\* URLSearchParams.get: null (here the falsy <<>>) when the parameter is absent
getParam(u, k) == IF k \in DOMAIN u THEN u[k] ELSE <<>>

\* URLSearchParams.set
setParam(u, k, v) == [x \in DOMAIN u \cup {k} |-> IF x = k THEN v ELSE u[x]]

bookIdFromUrl(u) == getParam(u, "bookId")
searchFromUrl(u) == getParam(u, "search")

\* locations the page can be opened at
InitialUrls ==
  { EmptyUrl,
    [k \in {"bookId", "search"} |-> IF k = "bookId" THEN String(1) ELSE BookAt(1).title],
    [k \in {"bookId", "search"} |-> IF k = "bookId" THEN String(2) ELSE <<"d">>],
    [k \in {"bookId", "tab"} |-> IF k = "bookId" THEN String(9) ELSE <<"a">>],
    [k \in {"search"} |-> <<"a">>] }

(***************************************************************************)
(* Search coordinator: the hook's state as a record, its callbacks as      *)
(* functions of that record, and Commit to make a record the next state.   *)
(***************************************************************************)
Hook == [books |-> books, searchQuery |-> searchQuery, selectedBook |-> selectedBook,
         similarBooks |-> similarBooks, loading |-> loading,
         isInitialized |-> isInitialized, navQueue |-> navQueue, simReqs |-> simReqs]

Commit(h) ==
  /\ books' = h.books
  /\ searchQuery' = h.searchQuery
  /\ selectedBook' = h.selectedBook
  /\ similarBooks' = h.similarBooks
  /\ loading' = h.loading
  /\ isInitialized' = h.isInitialized
  /\ navQueue' = h.navQueue
  /\ simReqs' = h.simReqs

\* selectBookInternal up to its await: the selection and the request it issues
selectBookInternal(h, book) ==
  [h EXCEPT !.selectedBook = book,
            !.searchQuery = book.title,
            !.loading = TRUE,
            !.simReqs = Append(@, [bookId |-> book.id, limit |-> SimilarLimit])]

\* selectBook building the pushed location from no parameters
selectBook_DropsParams(h, u, book) ==
  selectBookInternal(
    [h EXCEPT !.navQueue = Append(@, setParam(setParam(EmptyUrl, "bookId", String(book.id)),
                                              "search", book.title))],
    book)

\* selectBook: push the new location, then selectBookInternal
selectBook(h, u, book) ==
  selectBookInternal(
    [h EXCEPT !.navQueue = Append(@, setParam(setParam(u, "bookId", String(book.id)),
                                              "search", book.title))],
    book)

\* books.find(b => b.id === Number(bookIdFromUrl)); NoBook for undefined
findBook(bks, n) ==
  IF \E i \in 1..Len(bks) : bks[i].id = n
  THEN bks[CHOOSE i \in 1..Len(bks) : bks[i].id = n /\ \A j \in 1..(i - 1) : bks[j].id # n]
  ELSE NoBook

\* initFromUrl restoring through selectBook, which pushes a location
initFromUrl_Pushes(h, u) ==
  IF Len(h.books) > 0 /\ ~h.isInitialized
  THEN LET book == findBook(h.books, Number(bookIdFromUrl(u)))
           h1 == IF bookIdFromUrl(u) # <<>> /\ book # NoBook
                 THEN selectBook(h, u, book) ELSE h
           h2 == IF searchFromUrl(u) # <<>>
                 THEN [h1 EXCEPT !.searchQuery = searchFromUrl(u)] ELSE h1
       IN [h2 EXCEPT !.isInitialized = TRUE]
  ELSE h

\* the initialize-from-URL effect, run after a render committed h with location u
initFromUrl(h, u) ==
  IF Len(h.books) > 0 /\ ~h.isInitialized
  THEN LET book == findBook(h.books, Number(bookIdFromUrl(u)))
           h1 == IF bookIdFromUrl(u) # <<>> /\ book # NoBook
                 THEN selectBookInternal(h, book) ELSE h
           h2 == IF searchFromUrl(u) # <<>>
                 THEN [h1 EXCEPT !.searchQuery = searchFromUrl(u)] ELSE h1
       IN [h2 EXCEPT !.isInitialized = TRUE]
  ELSE h

\* handleSearch without the !selectedBook test
handleSearch_IgnoresSelection(h, u) ==
  LET fb == FilteredBooks(h.books, h.searchQuery)
  IN IF Len(fb) > 0 THEN selectBook(h, u, fb[1]) ELSE h

\* handleSearch
handleSearch(h, u) ==
  LET fb == FilteredBooks(h.books, h.searchQuery)
  IN IF Len(fb) > 0 /\ h.selectedBook = NoBook THEN selectBook(h, u, fb[1]) ELSE h

\* reset
reset(h) ==
  [h EXCEPT !.navQueue = Append(@, EmptyUrl),
            !.searchQuery = <<>>,
            !.selectedBook = NoBook,
            !.similarBooks = <<>>,
            !.isInitialized = FALSE]

\* what the user can type into the search input on the search page
SearchInputs == {<<>>, <<"d">>, <<" ">>}

\* the collections GET /api/books can answer with on the search page
Collections == {<<>>, Catalog}

\* loadBooks resolves with one of the collections cs: setBooks(fetchedBooks)
loadBooks(cs) ==
  /\ booksReq = "pending"
  /\ \E c \in cs :
       Commit(initFromUrl([Hook EXCEPT !.books = c], url))
  /\ booksReq' = "done"
  /\ lastAction' = "loadBooksOk"
  /\ UNCHANGED <<url, authVars, signupVars, pageVars>>

LoadBooksOk == loadBooks(Collections)

\* loadBooks rejects: the error is logged, no state changes
LoadBooksFail ==
  /\ booksReq = "pending"
  /\ booksReq' = "failed"
  /\ lastAction' = "loadBooksFail"
  /\ UNCHANGED <<books, searchQuery, selectedBook, similarBooks, loading,
                 isInitialized, url, navQueue, simReqs, authVars, signupVars, pageVars>>

\* the user edits the search input to one of the texts qs: setSearchQuery(e.target.value)
setSearchQuery(qs) ==
  /\ \E q \in qs : Commit(initFromUrl([Hook EXCEPT !.searchQuery = q], url))
  /\ lastAction' = "setSearchQuery"
  /\ UNCHANGED <<booksReq, url, authVars, signupVars, pageVars>>

SetSearchQuery == setSearchQuery(SearchInputs)

\* the user picks a book (dropdown entry or similar-books card)
SelectBook ==
  /\ Len(simReqs) < MaxInFlight
  /\ Len(navQueue) < MaxNav
  /\ \E i \in 1..Len(books) : Commit(initFromUrl(selectBook(Hook, url, books[i]), url))
  /\ lastAction' = "selectBook"
  /\ UNCHANGED <<booksReq, url, authVars, signupVars, pageVars>>

\* the user submits the query without picking a candidate
HandleSearch ==
  /\ Len(simReqs) < MaxInFlight
  /\ Len(navQueue) < MaxNav
  /\ Commit(initFromUrl(handleSearch(Hook, url), url))
  /\ lastAction' = "handleSearch"
  /\ UNCHANGED <<booksReq, url, authVars, signupVars, pageVars>>

\* the user resets the search; the effect runs on the render that follows,
\* before the pushed location is committed
Reset ==
  /\ Len(simReqs) < MaxInFlight
  /\ Len(navQueue) < MaxNav
  /\ Commit(initFromUrl(reset(Hook), url))
  /\ lastAction' = "reset"
  /\ UNCHANGED <<booksReq, url, authVars, signupVars, pageVars>>

\* remove the i-th element of a sequence
RemoveAt(s, i) == SubSeq(s, 1, i - 1) \o SubSeq(s, i + 1, Len(s))

\* selectBookInternal after its await, the fetch having answered 2xx:
\* setSimilarBooks(similar); finally setLoading(false)
similarResolved(h, i) ==
  [h EXCEPT !.similarBooks = SimilarOf(h.simReqs[i].bookId),
            !.loading = FALSE,
            !.simReqs = RemoveAt(@, i)]

\* similarFailed without the catch block's setSimilarBooks([])
similarFailed_KeepsList(h, i) ==
  [h EXCEPT !.loading = FALSE,
            !.simReqs = RemoveAt(@, i)]

\* selectBookInternal after its await, fetchSimilarBooks having thrown:
\* catch setSimilarBooks([]); finally setLoading(false)
similarFailed(h, i) ==
  [h EXCEPT !.similarBooks = <<>>,
            !.loading = FALSE,
            !.simReqs = RemoveAt(@, i)]

\* a similarity fetch answers 2xx
SimilarOk ==
  /\ \E i \in 1..Len(simReqs) : Commit(initFromUrl(similarResolved(Hook, i), url))
  /\ lastAction' = "similarOk"
  /\ UNCHANGED <<booksReq, url, authVars, signupVars, pageVars>>

\* a similarity fetch fails (non-2xx status or network error)
SimilarFail ==
  /\ \E i \in 1..Len(simReqs) : Commit(initFromUrl(similarFailed(Hook, i), url))
  /\ lastAction' = "similarFail"
  /\ UNCHANGED <<booksReq, url, authVars, signupVars, pageVars>>

\* the router commits the oldest pushed location; the page re-renders with it
NavCommit ==
  /\ navQueue # <<>>
  /\ url' = Head(navQueue)
  /\ Commit(initFromUrl([Hook EXCEPT !.navQueue = Tail(@)], Head(navQueue)))
  /\ lastAction' = "navCommit"
  /\ UNCHANGED <<booksReq, authVars, signupVars, pageVars>>

(***************************************************************************)
(* Auth session cache, client data cache, favorite toggle, user menu       *)
(***************************************************************************)
NoUser == 0
Users  == {1, 2}

NoMutation == [kind |-> "none", was |-> FALSE]

\* the paths the favorite button can be shown on
Pathnames == { <<"/">>,
               <<"/", "b", "o", "o", "k", "/", "4", "2">>,
               <<"/", "a", " ", "b", "%">> }

Unreserved == {"a", "b", "k", "o", "2", "4", "-", "_", ".", "~"}

\* the escape sequence of a character outside the unreserved set
escapeOf(c) ==
  IF c = "/" THEN <<"%", "2", "F">>
  ELSE IF c = " " THEN <<"%", "2", "0">>
  ELSE IF c = "%" THEN <<"%", "2", "5">>
  ELSE <<"%", "3", "F">>

\* encodeURIComponent
RECURSIVE encodeURIComponent(_)
encodeURIComponent(s) ==
  IF s = <<>> THEN <<>>
  ELSE (IF Head(s) \in Unreserved THEN <<Head(s)>> ELSE escapeOf(Head(s)))
       \o encodeURIComponent(Tail(s))

LoginPath == <<"/", "l", "o", "g", "i", "n">>
RedirectKey == <<"?", "r", "e", "d", "i", "r", "e", "c", "t", "=">>

NoPush == <<>>

\* loginRedirect with the path appended as it is
loginRedirect_Unencoded(path) == LoginPath \o RedirectKey \o path

\* `/login?redirect=${encodeURIComponent(window.location.pathname)}`
loginRedirect(path) == LoginPath \o RedirectKey \o encodeURIComponent(path)

\* useCheckFavorite(user ? bookId : null): the query is enabled only for a user
checkEnabled(u) == u # NoUser

\* `data` of useCheckFavorite as <<defined, is_favorite>>
checkData(u, c) ==
  IF checkEnabled(u) /\ c # {}
  THEN <<TRUE, (CHOOSE e \in c : TRUE).is_favorite>>
  ELSE <<FALSE, FALSE>>

data == checkData(user, cache)

\* isFavorite = data?.is_favorite ?? optimisticFavorite
isFavorite == IF data[1] THEN data[2] ELSE optimisticFavorite

\* isProcessing = addFavorite.isPending || removeFavorite.isPending
isProcessing == mutation # NoMutation

\* the effect on [data]: if (data !== undefined) setOptimisticFavorite(data.is_favorite)
syncFavorite(opt, oldData, newData) ==
  IF newData # oldData /\ newData[1] THEN newData[2] ELSE opt

\* commit of the session and the cache, followed by the button's effect on [data]
CommitSession(u, c, opt) ==
  /\ user' = u
  /\ cache' = c
  /\ optimisticFavorite' = syncFavorite(opt, data, checkData(u, c))

\* fetchUser up to its await: setLoading(true) and the request, which keeps
\* the `user` of the render that created the callback
fetchUserStart ==
  /\ authLoading' = TRUE
  /\ authReqs' = Append(authReqs, [closureUser |-> user])

\* the AuthProvider's mount effect: if (!initialUser) fetchUser()
MountEffect ==
  /\ ~authMounted
  /\ authMounted' = TRUE
  /\ IF user = NoUser THEN fetchUserStart ELSE UNCHANGED <<authLoading, authReqs>>
  /\ lastAction' = "mount"
  /\ UNCHANGED <<user, cache, checkReqs, optimisticFavorite, initialIsFavorite,
                 isAnimating, mutation, pathname, pushed, isLoggingOut, logoutReq,
                 searchVars, signupVars, pageVars>>

\* refreshUser() called by a consumer of the context
RefreshUser ==
  /\ authMounted
  /\ Len(authReqs) < MaxAuthReqs
  /\ fetchUserStart
  /\ lastAction' = "refreshUser"
  /\ UNCHANGED <<user, cache, checkReqs, optimisticFavorite, initialIsFavorite, authMounted,
                 isAnimating, mutation, pathname, pushed, isLoggingOut, logoutReq,
                 searchVars, signupVars, pageVars>>

\* the cache is cleared when the response's id differs from the closure's user
userChanged(closureUser, id) == closureUser # NoUser /\ closureUser # id

\* GET /api/auth/me answers 2xx with a user
FetchUserOk ==
  /\ authMounted
  /\ \E i \in 1..Len(authReqs), id \in Users :
       LET cleared == userChanged(authReqs[i].closureUser, id)
       IN /\ CommitSession(id, IF cleared THEN {} ELSE cache, optimisticFavorite)
          /\ checkReqs' = IF cleared THEN <<>> ELSE checkReqs
          /\ authReqs' = RemoveAt(authReqs, i)
  /\ authLoading' = FALSE
  /\ lastAction' = "fetchUserOk"
  /\ UNCHANGED <<initialIsFavorite, authMounted, isAnimating, mutation, pathname, pushed,
                 isLoggingOut, logoutReq, searchVars, signupVars, pageVars>>

\* FetchUserDenied without queryClient.clear()
FetchUserDenied_KeepsCache ==
  /\ authMounted
  /\ \E i \in 1..Len(authReqs) : authReqs' = RemoveAt(authReqs, i)
  /\ CommitSession(NoUser, cache, optimisticFavorite)
  /\ checkReqs' = checkReqs
  /\ authLoading' = FALSE
  /\ lastAction' = "fetchUserDenied"
  /\ UNCHANGED <<initialIsFavorite, authMounted, isAnimating, mutation, pathname, pushed,
                 isLoggingOut, logoutReq, searchVars, signupVars, pageVars>>

\* GET /api/auth/me answers with a non-2xx status
FetchUserDenied ==
  /\ authMounted
  /\ \E i \in 1..Len(authReqs) : authReqs' = RemoveAt(authReqs, i)
  /\ CommitSession(NoUser, {}, optimisticFavorite)
  /\ checkReqs' = <<>>
  /\ authLoading' = FALSE
  /\ lastAction' = "fetchUserDenied"
  /\ UNCHANGED <<initialIsFavorite, authMounted, isAnimating, mutation, pathname, pushed,
                 isLoggingOut, logoutReq, searchVars, signupVars, pageVars>>

\* GET /api/auth/me fails on the network
FetchUserError ==
  /\ authMounted
  /\ \E i \in 1..Len(authReqs) : authReqs' = RemoveAt(authReqs, i)
  /\ CommitSession(NoUser, {}, optimisticFavorite)
  /\ checkReqs' = <<>>
  /\ authLoading' = FALSE
  /\ lastAction' = "fetchUserError"
  /\ UNCHANGED <<initialIsFavorite, authMounted, isAnimating, mutation, pathname, pushed,
                 isLoggingOut, logoutReq, searchVars, signupVars, pageVars>>

\* logout of the AuthProvider: setUser(null); queryClient.clear()
logout ==
  /\ CommitSession(NoUser, {}, optimisticFavorite)
  /\ checkReqs' = <<>>

\* UserMenu.handleLogout up to its await
HandleLogout ==
  /\ authMounted
  /\ ~isLoggingOut
  /\ logoutReq = "idle"
  /\ isLoggingOut' = TRUE
  /\ logoutReq' = "pending"
  /\ lastAction' = "handleLogout"
  /\ UNCHANGED <<user, authLoading, authReqs, cache, checkReqs, optimisticFavorite,
                 initialIsFavorite, authMounted, isAnimating, mutation, pathname, pushed, searchVars, signupVars, pageVars>>

\* POST /api/auth/logout answers 2xx: logout(); router.push('/login')
LogoutOk ==
  /\ authMounted
  /\ logoutReq = "pending"
  /\ logout
  /\ pushed' = LoginPath
  /\ logoutReq' = "idle"
  /\ lastAction' = "logoutOk"
  /\ UNCHANGED <<authLoading, authReqs, initialIsFavorite, authMounted, isAnimating, mutation,
                 pathname, isLoggingOut, searchVars, signupVars, pageVars>>

\* LogoutRejected navigating to /login all the same
LogoutRejected_Navigates ==
  /\ authMounted
  /\ logoutReq = "pending"
  /\ isLoggingOut' = FALSE
  /\ logoutReq' = "idle"
  /\ pushed' = LoginPath
  /\ lastAction' = "logoutRejected"
  /\ UNCHANGED <<user, authLoading, authReqs, cache, checkReqs, optimisticFavorite,
                 initialIsFavorite, authMounted, isAnimating, mutation, pathname,
                 searchVars, signupVars, pageVars>>

\* POST /api/auth/logout answers with an error status
LogoutRejected ==
  /\ authMounted
  /\ logoutReq = "pending"
  /\ isLoggingOut' = FALSE
  /\ logoutReq' = "idle"
  /\ lastAction' = "logoutRejected"
  /\ UNCHANGED <<user, authLoading, authReqs, cache, checkReqs, optimisticFavorite,
                 initialIsFavorite, authMounted, isAnimating, mutation, pathname, pushed, searchVars, signupVars, pageVars>>

\* POST /api/auth/logout fails on the network
LogoutError ==
  /\ authMounted
  /\ logoutReq = "pending"
  /\ isLoggingOut' = FALSE
  /\ logoutReq' = "idle"
  /\ lastAction' = "logoutError"
  /\ UNCHANGED <<user, authLoading, authReqs, cache, checkReqs, optimisticFavorite,
                 initialIsFavorite, authMounted, isAnimating, mutation, pathname, pushed, searchVars, signupVars, pageVars>>

\* the favorite-check query starts its fetch: enabled, nothing cached, none in flight
CheckFavoriteFetch ==
  /\ authMounted
  /\ checkEnabled(user)
  /\ cache = {}
  /\ checkReqs = <<>>
  /\ checkReqs' = <<[owner |-> user]>>
  /\ lastAction' = "checkFavoriteFetch"
  /\ UNCHANGED <<user, authLoading, authReqs, cache, optimisticFavorite,
                 initialIsFavorite, authMounted, isAnimating, mutation, pathname, pushed,
                 isLoggingOut, logoutReq, searchVars, signupVars, pageVars>>

\* GET /api/favorites/{id}/check answers: the entry is stored under the book's key
CheckFavoriteOk ==
  /\ authMounted
  /\ checkReqs # <<>>
  /\ \E v \in BOOLEAN :
       CommitSession(user, {[owner |-> Head(checkReqs).owner, is_favorite |-> v]},
                     optimisticFavorite)
  /\ checkReqs' = Tail(checkReqs)
  /\ lastAction' = "checkFavoriteOk"
  /\ UNCHANGED <<authLoading, authReqs, initialIsFavorite, authMounted, isAnimating, mutation,
                 pathname, pushed, isLoggingOut, logoutReq, searchVars, signupVars, pageVars>>

\* GET /api/favorites/{id}/check fails: no entry is stored
CheckFavoriteFail ==
  /\ authMounted
  /\ checkReqs # <<>>
  /\ checkReqs' = Tail(checkReqs)
  /\ lastAction' = "checkFavoriteFail"
  /\ UNCHANGED <<user, authLoading, authReqs, cache, optimisticFavorite,
                 initialIsFavorite, authMounted, isAnimating, mutation, pathname, pushed,
                 isLoggingOut, logoutReq, searchVars, signupVars, pageVars>>

\* FavoriteButton.handleClick up to its await
HandleClick ==
  /\ authMounted
  /\ ~isProcessing
  /\ IF user = NoUser
     THEN /\ pushed' = loginRedirect(pathname)
          /\ UNCHANGED <<isAnimating, optimisticFavorite, mutation>>
     ELSE /\ isAnimating' = TRUE
          /\ optimisticFavorite' = ~isFavorite
          /\ mutation' = [kind |-> IF isFavorite THEN "remove" ELSE "add",
                          was |-> isFavorite]
          /\ UNCHANGED pushed
  /\ lastAction' = "handleClick"
  /\ UNCHANGED <<user, authLoading, authReqs, cache, checkReqs, initialIsFavorite, authMounted,
                 pathname, isLoggingOut, logoutReq, searchVars, signupVars, pageVars>>

\* setTimeout(() => setIsAnimating(false), 300)
AnimationEnd ==
  /\ authMounted
  /\ isAnimating
  /\ isAnimating' = FALSE
  /\ lastAction' = "animationEnd"
  /\ UNCHANGED <<user, authLoading, authReqs, cache, checkReqs, optimisticFavorite,
                 initialIsFavorite, authMounted, mutation, pathname, pushed, isLoggingOut,
                 logoutReq, searchVars, signupVars, pageVars>>

\* mutateAsync resolves
MutationOk ==
  /\ authMounted
  /\ mutation # NoMutation
  /\ mutation' = NoMutation
  /\ lastAction' = "mutationOk"
  /\ UNCHANGED <<user, authLoading, authReqs, cache, checkReqs, optimisticFavorite,
                 initialIsFavorite, authMounted, isAnimating, pathname, pushed, isLoggingOut,
                 logoutReq, searchVars, signupVars, pageVars>>

\* mutateAsync rejects: setOptimisticFavorite(isFavorite) with the click's isFavorite
MutationFail ==
  /\ authMounted
  /\ mutation # NoMutation
  /\ optimisticFavorite' = mutation.was
  /\ mutation' = NoMutation
  /\ lastAction' = "mutationFail"
  /\ UNCHANGED <<user, authLoading, authReqs, cache, checkReqs, initialIsFavorite, authMounted,
                 isAnimating, pathname, pushed, isLoggingOut, logoutReq, searchVars, signupVars, pageVars>>

(***************************************************************************)
(* Signup form (RegisterForm)                                              *)
(***************************************************************************)
MinPasswordLen == 8
MaxPasswordLen == 72

\* the string of n copies of the character c
Repeat(c, n) == [i \in 1..n |-> c]

\* what the user can type into the two password inputs
Passwords ==
  {Repeat("a", n) : n \in {MinPasswordLen - 1, MinPasswordLen, MaxPasswordLen, MaxPasswordLen + 1}}
    \cup {Repeat("b", MinPasswordLen)}

authUnchanged == <<user, authLoading, authReqs, cache, checkReqs, optimisticFavorite,
                   initialIsFavorite, isAnimating, mutation, pathname,
                   isLoggingOut, logoutReq, authMounted>>

\* setPassword(e.target.value); the input is disabled while isPending
SetPassword ==
  /\ formMounted
  /\ ~isPending
  /\ \E p \in Passwords : password' = p
  /\ lastAction' = "setPassword"
  /\ UNCHANGED <<confirmPassword, error, success, isPending, redirectTimer, formMounted,
                 pushed, authUnchanged, searchVars, pageVars>>

\* setConfirmPassword(e.target.value); the input is disabled while isPending
SetConfirmPassword ==
  /\ formMounted
  /\ ~isPending
  /\ \E p \in Passwords : confirmPassword' = p
  /\ lastAction' = "setConfirmPassword"
  /\ UNCHANGED <<password, error, success, isPending, redirectTimer, formMounted,
                 pushed, authUnchanged, searchVars, pageVars>>

\* the message onSubmit's validation sets, "" when the three checks pass
\* validationError without the upper limit
validationError_NoMaximum(pw, confirm) ==
  IF Len(pw) < MinPasswordLen THEN "Password must be at least 8 characters"
  ELSE IF pw # confirm THEN "Passwords do not match"
  ELSE ""

\* the three checks of onSubmit, in order; "" when they pass
validationError(pw, confirm) ==
  IF Len(pw) < MinPasswordLen THEN "Password must be at least 8 characters"
  ELSE IF Len(pw) > MaxPasswordLen THEN "Password cannot be longer than 72 characters"
  ELSE IF pw # confirm THEN "Passwords do not match"
  ELSE ""

\* onSubmit up to its await; the submit button is disabled while isPending
OnSubmit ==
  /\ formMounted
  /\ ~isPending
  /\ success' = ""
  /\ error' = validationError(password, confirmPassword)
  /\ isPending' = (validationError(password, confirmPassword) = "")
  /\ lastAction' = "onSubmit"
  /\ UNCHANGED <<password, confirmPassword, redirectTimer, formMounted,
                 pushed, authUnchanged, searchVars, pageVars>>

\* POST /api/auth/signup answers 2xx: setSuccess(...); setTimeout(redirect, 1500).
\* State setters of an unmounted component have no effect; the timer is set anyway.
SignupOk ==
  /\ isPending
  /\ isPending' = FALSE
  /\ success' = IF formMounted THEN "Account created successfully! Redirecting..." ELSE success
  /\ redirectTimer' = TRUE
  /\ lastAction' = "signupOk"
  /\ UNCHANGED <<password, confirmPassword, error, formMounted,
                 pushed, authUnchanged, searchVars, pageVars>>

\* POST /api/auth/signup answers with an error status: setError(data.detail || ...)
SignupRejected ==
  /\ isPending
  /\ isPending' = FALSE
  /\ error' = IF formMounted THEN "Registration failed" ELSE error
  /\ lastAction' = "signupRejected"
  /\ UNCHANGED <<password, confirmPassword, success, redirectTimer, formMounted,
                 pushed, authUnchanged, searchVars, pageVars>>

\* POST /api/auth/signup fails on the network
SignupError ==
  /\ isPending
  /\ isPending' = FALSE
  /\ error' = IF formMounted THEN "Network error. Please try again." ELSE error
  /\ lastAction' = "signupError"
  /\ UNCHANGED <<password, confirmPassword, success, redirectTimer, formMounted,
                 pushed, authUnchanged, searchVars, pageVars>>

\* the 1500 ms timer fires: router.push("/login")
RedirectTimeout ==
  /\ redirectTimer
  /\ redirectTimer' = FALSE
  /\ pushed' = LoginPath
  /\ lastAction' = "redirectTimeout"
  /\ UNCHANGED <<password, confirmPassword, error, success, isPending, formMounted,
                 authUnchanged, searchVars, pageVars>>

\* the user leaves the signup page; the component registers no cleanup
UnmountForm ==
  /\ formMounted
  /\ formMounted' = FALSE
  /\ lastAction' = "unmountForm"
  /\ UNCHANGED <<password, confirmPassword, error, success, isPending, redirectTimer,
                 pushed, authUnchanged, searchVars, pageVars>>

(***************************************************************************)
(* Admin dashboard: the polled queries, DashboardPage, AlertsCard           *)
(***************************************************************************)
MaxAlerts == 4

QueryKeys == {"status", "monitor", "alerts", "logs"}

\* the retry option of each dashboard hook
retry(q) == IF q = "logs" THEN 1 ELSE 2

\* data === undefined
NoData == <<>>

\* the values a dashboard endpoint can answer with
QueryValues(q) ==
  IF q = "status" THEN {<<"healthy">>, <<"unhealthy">>} ELSE {<<"ok">>}

\* a query that has not fetched yet
IdleQuery == [data |-> NoData, isFetching |-> FALSE, failureCount |-> 0, isError |-> FALSE]

\* a fetch starts (mount or refetchInterval): the failure count starts over,
\* and a query without data goes back to loading
fetchStarted(r) ==
  [r EXCEPT !.isFetching = TRUE,
            !.failureCount = 0,
            !.isError = IF r.data = NoData THEN FALSE ELSE @]

\* the query function resolves with v
fetchSucceeded(r, v) ==
  [data |-> v, isFetching |-> FALSE, failureCount |-> 0, isError |-> FALSE]

\* fetchFailed throwing the cached value away
fetchFailed_DropsData(r, q) ==
  IF r.failureCount < retry(q)
  THEN [r EXCEPT !.failureCount = @ + 1, !.data = NoData]
  ELSE [r EXCEPT !.failureCount = @ + 1, !.isFetching = FALSE, !.isError = TRUE,
                 !.data = NoData]

\* the query function throws: retried while failureCount < retry, then surfaced
fetchFailed(r, q) ==
  IF r.failureCount < retry(q)
  THEN [r EXCEPT !.failureCount = @ + 1]
  ELSE [r EXCEPT !.failureCount = @ + 1, !.isFetching = FALSE, !.isError = TRUE]

\* useQuery's isLoading: fetching with no data yet
isLoading(qs, q) == qs[q].data = NoData /\ qs[q].isFetching

\* what DashboardPage returns
DashboardView(qs) ==
  IF isLoading(qs, "status") \/ isLoading(qs, "monitor") THEN "DashboardLoader"
  ELSE IF qs["status"].data = NoData THEN "DashboardError"
  ELSE "dashboard"

dashUnchanged == <<alerts, alertsLoading, card, searchVars, authVars, signupVars,
                   barVars, serverVars>>

\* refetchInterval fires for a query that is not fetching
Refetch ==
  /\ \E q \in QueryKeys :
       /\ ~queries[q].isFetching
       /\ queries' = [queries EXCEPT ![q] = fetchStarted(@)]
  /\ lastAction' = "refetch"
  /\ UNCHANGED dashUnchanged

\* a dashboard endpoint answers 2xx
FetchOk ==
  /\ \E q \in QueryKeys :
       /\ queries[q].isFetching
       /\ \E v \in QueryValues(q) : queries' = [queries EXCEPT ![q] = fetchSucceeded(@, v)]
  /\ lastAction' = "fetchOk"
  /\ UNCHANGED dashUnchanged

\* a dashboard endpoint answers non-2xx or the request fails
FetchFail ==
  /\ \E q \in QueryKeys :
       /\ queries[q].isFetching
       /\ queries' = [queries EXCEPT ![q] = fetchFailed(@, q)]
  /\ lastAction' = "fetchFail"
  /\ UNCHANGED dashUnchanged

Severities == {"critical", "warning"}

\* the alert lists of length n
AlertListsOf(n) == [1..n -> [severity : Severities]]

\* the alert lists AlertsCard is rendered with
AlertLists == UNION {AlertListsOf(n) : n \in 0..MaxAlerts}

\* criticalCount counting every alert
criticalCount_CountsAll(as) == Len(as)

\* alerts.filter(a => a.severity === 'critical').length
criticalCount(as) == Len(SelectSeq(as, LAMBDA a : a.severity = "critical"))

\* nothing rendered yet
NoCard == [rendered |-> FALSE, skeleton |-> FALSE, criticalBadge |-> <<>>, totalBadge |-> 0]

\* what AlertsCard returns: the skeleton, or the two badges
\* (criticalBadge is <<>> when the badge is not rendered)
AlertsCard(as, isLoadingProp) ==
  IF isLoadingProp
  THEN [rendered |-> TRUE, skeleton |-> TRUE, criticalBadge |-> <<>>, totalBadge |-> 0]
  ELSE [rendered |-> TRUE, skeleton |-> FALSE,
        criticalBadge |-> IF criticalCount(as) > 0 THEN <<criticalCount(as)>> ELSE <<>>,
        totalBadge |-> Len(as)]

cardUnchanged == <<queries, searchVars, authVars, signupVars, barVars, serverVars>>

\* the first render of the card
RenderAlertsCard ==
  /\ ~card.rendered
  /\ card' = AlertsCard(alerts, alertsLoading)
  /\ lastAction' = "renderAlertsCard"
  /\ UNCHANGED <<alerts, alertsLoading, cardUnchanged>>

\* the page passes new props and the card renders again
UpdateAlertsCard ==
  /\ card.rendered
  /\ \E as \in AlertLists, l \in BOOLEAN :
       /\ alerts' = as
       /\ alertsLoading' = l
       /\ card' = AlertsCard(as, l)
  /\ lastAction' = "updateAlertsCard"
  /\ UNCHANGED cardUnchanged

(***************************************************************************)
(* Search bar: SearchBar and SearchDropdown on top of the coordinator       *)
(***************************************************************************)
MaxBarNav == 2   \* router.push calls not yet committed on the search-bar page

\* showDropdown as the coordinator computes it in state h
showDropdownIn(h) ==
  /\ Len(FilteredBooks(h.books, h.searchQuery)) > 0
  /\ trim(h.searchQuery) # <<>>
  /\ h.selectedBook = NoBook

\* the SearchDropdown is rendered
dropdownMounted == isDropdownVisible /\ Len(filteredBooks) > 0

\* what the user can type into the search input of the search bar
BarInputs == {<<>>, <<"d">>, <<"a", "a">>}

\* the renders that follow a handler which left the coordinator as h0,
\* isDropdownVisible as v and selectedIndex as i, with location u:
\* SearchBar's effect copies showDropdown when it changed, the coordinator's
\* initialize-from-URL effect runs, and SearchDropdown's effect resets
\* selectedIndex when books or searchQuery changed; a dropdown that was
\* unmounted in between starts again at 0
BarCommit(h0, u, v, i) ==
  LET h == initFromUrl(h0, u)
      vis1 == IF showDropdownIn(h0) # showDropdown THEN showDropdownIn(h0) ELSE v
      vis2 == IF showDropdownIn(h) # showDropdownIn(h0) THEN showDropdownIn(h) ELSE vis1
      kept == /\ dropdownMounted
              /\ vis1
              /\ vis2
              /\ h0.books = books /\ h0.searchQuery = searchQuery
              /\ h.books = books /\ h.searchQuery = searchQuery
  IN /\ Commit(h)
     /\ isDropdownVisible' = vis2
     /\ selectedIndex' = IF kept THEN i ELSE 0

barUnchanged == <<authVars, signupVars, dashVars, serverVars>>

\* loadBooks resolves on the search-bar page
BarBooksLoaded ==
  /\ booksReq = "pending"
  /\ \E c \in Collections :
       BarCommit([Hook EXCEPT !.books = c], url, isDropdownVisible, selectedIndex)
  /\ booksReq' = "done"
  /\ lastAction' = "loadBooksOk"
  /\ UNCHANGED <<url, barUnchanged>>

\* onChange of the input: onSearchChange(e.target.value)
OnSearchChange ==
  /\ \E q \in BarInputs :
       BarCommit([Hook EXCEPT !.searchQuery = q], url, isDropdownVisible, selectedIndex)
  /\ lastAction' = "onSearchChange"
  /\ UNCHANGED <<booksReq, url, barUnchanged>>

\* onFocus of the input
InputFocus ==
  /\ isDropdownVisible' =
       IF trim(searchQuery) # <<>> /\ Len(filteredBooks) > 0 THEN TRUE ELSE isDropdownVisible
  /\ selectedIndex' = IF dropdownMounted THEN selectedIndex ELSE 0
  /\ lastAction' = "inputFocus"
  /\ UNCHANGED <<searchVars, barUnchanged>>

\* Escape, or a pointerdown outside the bar: setIsDropdownVisible(false)
Escape ==
  /\ isDropdownVisible
  /\ isDropdownVisible' = FALSE
  /\ selectedIndex' = 0
  /\ lastAction' = "escape"
  /\ UNCHANGED <<searchVars, barUnchanged>>

\* arrowDown moving past the last candidate
arrowDown_Unbounded(i, n) == i + 1

\* setSelectedIndex((i) => (i < books.length - 1 ? i + 1 : i))
arrowDown(i, n) == IF i < n - 1 THEN i + 1 ELSE i

\* setSelectedIndex((i) => (i > 0 ? i - 1 : i))
arrowUp(i) == IF i > 0 THEN i - 1 ELSE i

\* ArrowDown reaches the dropdown's document listener
ArrowDown ==
  /\ dropdownMounted
  /\ selectedIndex' = arrowDown(selectedIndex, Len(filteredBooks))
  /\ lastAction' = "arrowDown"
  /\ UNCHANGED <<isDropdownVisible, searchVars, barUnchanged>>

\* ArrowUp reaches the dropdown's document listener
ArrowUp ==
  /\ dropdownMounted
  /\ selectedIndex' = arrowUp(selectedIndex)
  /\ lastAction' = "arrowUp"
  /\ UNCHANGED <<isDropdownVisible, searchVars, barUnchanged>>

\* handleKeyPress of the input for Enter
handleKeyPress(h, u) ==
  LET fb == FilteredBooks(h.books, h.searchQuery)
  IN IF isDropdownVisible /\ Len(fb) > 0 THEN selectBook(h, u, fb[1])
     ELSE IF Len(fb) = 1 THEN selectBook(h, u, fb[1])
     ELSE handleSearch(h, u)

\* the dropdown's document listener for Enter, with the books and the
\* selectedIndex of the render it was registered in
onKeyDownEnter(h, u, fb, i) ==
  IF i + 1 \in DOMAIN fb THEN selectBook(h, u, fb[i + 1]) ELSE h

\* Enter is pressed in the input. The input's onKeyDown runs first; the event
\* then reaches document, where the dropdown's listener runs as well unless
\* the render caused by the first handler has already removed it.
EnterInInput ==
  /\ Len(simReqs) + 2 <= MaxInFlight
  /\ Len(navQueue) + 2 <= MaxBarNav
  /\ \E listenerRuns \in BOOLEAN :
       LET h1 == handleKeyPress(Hook, url)
           h2 == IF dropdownMounted /\ listenerRuns
                 THEN onKeyDownEnter(h1, url, filteredBooks, selectedIndex)
                 ELSE h1
       IN BarCommit(h2, url, FALSE, selectedIndex)
  /\ lastAction' = "enterInInput"
  /\ UNCHANGED <<booksReq, url, barUnchanged>>

\* a similarity fetch answers 2xx on the search-bar page
BarSimilarOk ==
  /\ \E i \in 1..Len(simReqs) :
       BarCommit(similarResolved(Hook, i), url, isDropdownVisible, selectedIndex)
  /\ lastAction' = "similarOk"
  /\ UNCHANGED <<booksReq, url, barUnchanged>>

\* a similarity fetch fails on the search-bar page
BarSimilarFail ==
  /\ \E i \in 1..Len(simReqs) :
       BarCommit(similarFailed(Hook, i), url, isDropdownVisible, selectedIndex)
  /\ lastAction' = "similarFail"
  /\ UNCHANGED <<booksReq, url, barUnchanged>>

\* the router commits the oldest pushed location on the search-bar page
BarNavCommit ==
  /\ navQueue # <<>>
  /\ url' = Head(navQueue)
  /\ BarCommit([Hook EXCEPT !.navQueue = Tail(@)], Head(navQueue),
               isDropdownVisible, selectedIndex)
  /\ lastAction' = "navCommit"
  /\ UNCHANGED <<booksReq, barUnchanged>>

(***************************************************************************)
(* Server side: the access_token cookie, the logout route handler, the      *)
(* middleware and the login page                                            *)
(***************************************************************************)
\* the statuses the backend answers POST /api/auth/logout with
BackendStatuses == {200, 401, 503}

\* the handler is not running
RouteIdle == [at |-> "idle", status |-> 0]

serverUnchanged == <<searchVars, authVars, signupVars, dashVars, barVars>>

\* POST /api/auth/logout arrives: the handler reads the cookie and awaits
\* its fetch to the backend
RouteStart ==
  /\ routePos = RouteIdle
  /\ routePos' = [at |-> "fetch", status |-> 0]
  /\ lastAction' = "routeStart"
  /\ UNCHANGED <<cookie, held, pendingNav, rendered, result, serverUnchanged>>

\* the backend answers; the handler awaits response.json()
BackendResponds ==
  /\ routePos.at = "fetch"
  /\ \E st \in BackendStatuses : routePos' = [at |-> "json", status |-> st]
  /\ lastAction' = "backendResponds"
  /\ UNCHANGED <<cookie, held, pendingNav, rendered, result, serverUnchanged>>

\* the response of the try block: the backend's status, cookie deleted
routeResult(st) == [status |-> st, deleted |-> TRUE]

\* routeCaught leaving the cookie in place
routeCaught_KeepsCookie == [status |-> 500, deleted |-> FALSE]

\* the response of the catch block: status 500, cookie deleted
routeCaught == [status |-> 500, deleted |-> TRUE]

\* the browser applies the response's Set-Cookie
applyCookie(r) == IF r.deleted THEN "none" ELSE cookie

\* the body parsed: NextResponse.json(data, { status }), cookies.delete, return
RouteReturn ==
  /\ routePos.at = "json"
  /\ result' = routeResult(routePos.status)
  /\ cookie' = applyCookie(routeResult(routePos.status))
  /\ routePos' = RouteIdle
  /\ lastAction' = "routeReturn"
  /\ UNCHANGED <<held, pendingNav, rendered, serverUnchanged>>

\* the fetch or response.json() throws: the catch block answers
RouteCatch ==
  /\ routePos.at \in {"fetch", "json"}
  /\ result' = routeCaught
  /\ cookie' = applyCookie(routeCaught)
  /\ routePos' = RouteIdle
  /\ lastAction' = "routeCatch"
  /\ UNCHANGED <<held, pendingNav, rendered, serverUnchanged>>

\* fetchUser against the backend: 2xx with a valid cookie, 401 without one
\* or with one the backend no longer accepts, or a network error
SessionCheck ==
  /\ \E networkError \in BOOLEAN :
       held' = IF ~networkError /\ cookie = "valid"
               THEN "authenticated" ELSE "unauthenticated"
  /\ lastAction' = "sessionCheck"
  /\ UNCHANGED <<cookie, pendingNav, rendered, routePos, result, serverUnchanged>>

\* the backend stops accepting the token; the browser keeps the cookie
TokenRejected ==
  /\ cookie = "valid"
  /\ cookie' = "stale"
  /\ lastAction' = "tokenRejected"
  /\ UNCHANGED <<held, pendingNav, rendered, routePos, result, serverUnchanged>>

\* the favorite button of an unauthenticated user: router.push('/login?redirect=...')
PushLogin ==
  /\ held = "unauthenticated"
  /\ pendingNav = "none"
  /\ pendingNav' = "/login"
  /\ lastAction' = "pushLogin"
  /\ UNCHANGED <<cookie, held, rendered, routePos, result, serverUnchanged>>

\* a navigation to the dashboard starts
PushDashboard ==
  /\ pendingNav = "none"
  /\ pendingNav' = "/dashboard"
  /\ lastAction' = "pushDashboard"
  /\ UNCHANGED <<cookie, held, rendered, routePos, result, serverUnchanged>>

\* the middleware on a /dashboard request: redirect to /login without a cookie
middleware ==
  /\ pendingNav = "/dashboard"
  /\ IF cookie = "none"
     THEN pendingNav' = "/login" /\ rendered' = rendered
     ELSE pendingNav' = "none" /\ rendered' = "dashboard"
  /\ lastAction' = "middleware"
  /\ UNCHANGED <<cookie, held, routePos, result, serverUnchanged>>

\* LoginPage: redirect('/') when the cookie is present, else the login form
LoginPage ==
  /\ pendingNav = "/login"
  /\ IF cookie # "none"
     THEN pendingNav' = "/" /\ rendered' = rendered
     ELSE pendingNav' = "none" /\ rendered' = "loginForm"
  /\ lastAction' = "loginPage"
  /\ UNCHANGED <<cookie, held, routePos, result, serverUnchanged>>

\* the home page renders
HomePage ==
  /\ pendingNav = "/"
  /\ pendingNav' = "none"
  /\ rendered' = "home"
  /\ lastAction' = "homePage"
  /\ UNCHANGED <<cookie, held, routePos, result, serverUnchanged>>

\* the login form is submitted and POST /api/auth/login answers 2xx:
\* the cookie is set, router.push("/"), router.refresh()
LoginOk ==
  /\ rendered = "loginForm"
  /\ pendingNav = "none"
  /\ cookie' = "valid"
  /\ held' = "authenticated"
  /\ pendingNav' = "/"
  /\ lastAction' = "loginOk"
  /\ UNCHANGED <<rendered, routePos, result, serverUnchanged>>

(***************************************************************************)
(* Specifications                                                          *)
(***************************************************************************)
SearchIdle ==
  /\ books = <<>>
  /\ booksReq = "pending"
  /\ searchQuery = <<>>
  /\ selectedBook = NoBook
  /\ similarBooks = <<>>
  /\ loading = FALSE
  /\ isInitialized = FALSE
  /\ url = EmptyUrl
  /\ navQueue = <<>>
  /\ simReqs = <<>>

AuthIdle ==
  /\ user = NoUser
  /\ authLoading = FALSE
  /\ authReqs = <<>>
  /\ cache = {}
  /\ checkReqs = <<>>
  /\ optimisticFavorite = FALSE
  /\ initialIsFavorite = FALSE
  /\ isAnimating = FALSE
  /\ mutation = NoMutation
  /\ pathname = <<"/">>
  /\ pushed = NoPush
  /\ isLoggingOut = FALSE
  /\ logoutReq = "idle"
  /\ authMounted = FALSE

SignupIdle ==
  /\ password = <<>>
  /\ confirmPassword = <<>>
  /\ error = ""
  /\ success = ""
  /\ isPending = FALSE
  /\ redirectTimer = FALSE
  /\ formMounted = FALSE

DashIdle ==
  /\ queries = [q \in QueryKeys |-> IdleQuery]
  /\ alerts = <<>>
  /\ alertsLoading = FALSE
  /\ card = NoCard

BarIdle ==
  /\ isDropdownVisible = FALSE
  /\ selectedIndex = 0

NoResult == [status |-> 0, deleted |-> FALSE]

ServerIdle ==
  /\ cookie = "none"
  /\ held = "unknown"
  /\ pendingNav = "none"
  /\ rendered = "home"
  /\ routePos = RouteIdle
  /\ result = NoResult

PageIdle == DashIdle /\ BarIdle /\ ServerIdle

\* the search page after mount: loadBooks() is in flight
SearchInit ==
  /\ books = <<>>
  /\ booksReq = "pending"
  /\ searchQuery = <<>>
  /\ selectedBook = NoBook
  /\ similarBooks = <<>>
  /\ loading = FALSE
  /\ isInitialized = FALSE
  /\ url \in InitialUrls
  /\ navQueue = <<>>
  /\ simReqs = <<>>
  /\ AuthIdle
  /\ SignupIdle
  /\ PageIdle
  /\ lastAction = "init"

SearchNext ==
  \/ LoadBooksOk
  \/ LoadBooksFail
  \/ SetSearchQuery
  \/ SelectBook
  \/ HandleSearch
  \/ Reset
  \/ SimilarOk
  \/ SimilarFail
  \/ NavCommit

SearchSpec == SearchInit /\ [][SearchNext]_vars

\* the provider's first render: useState(initialUser || null), useState(false)
AuthInit ==
  /\ user \in {NoUser} \cup Users
  /\ authLoading = FALSE
  /\ authReqs = <<>>
  /\ authMounted = FALSE
  /\ cache = {}
  /\ checkReqs = <<>>
  /\ initialIsFavorite \in BOOLEAN
  /\ optimisticFavorite = initialIsFavorite
  /\ isAnimating = FALSE
  /\ mutation = NoMutation
  /\ pathname \in Pathnames
  /\ pushed = NoPush
  /\ isLoggingOut = FALSE
  /\ logoutReq = "idle"
  /\ SearchIdle
  /\ SignupIdle
  /\ PageIdle
  /\ lastAction = "init"

AuthNext ==
  \/ MountEffect
  \/ RefreshUser
  \/ FetchUserOk
  \/ FetchUserDenied
  \/ FetchUserError
  \/ HandleLogout
  \/ LogoutOk
  \/ LogoutRejected
  \/ LogoutError
  \/ CheckFavoriteFetch
  \/ CheckFavoriteOk
  \/ CheckFavoriteFail
  \/ HandleClick
  \/ AnimationEnd
  \/ MutationOk
  \/ MutationFail

AuthSpec == AuthInit /\ [][AuthNext]_vars

\* the signup page after mount
SignupInit ==
  /\ password = <<>>
  /\ confirmPassword = <<>>
  /\ error = ""
  /\ success = ""
  /\ isPending = FALSE
  /\ redirectTimer = FALSE
  /\ formMounted = TRUE
  /\ SearchIdle
  /\ AuthIdle
  /\ PageIdle
  /\ lastAction = "init"

SignupNext ==
  \/ SetPassword
  \/ SetConfirmPassword
  \/ OnSubmit
  \/ SignupOk
  \/ SignupRejected
  \/ SignupError
  \/ RedirectTimeout
  \/ UnmountForm

SignupSpec == SignupInit /\ [][SignupNext]_vars

\* the candidate list as a function of the collection and the query: the
\* collection is one of the first MaxBooks prefixes of the catalog, the query
\* any text of at most MaxQueryLen characters
FilterCollections == {CollectionOf(n) : n \in 0..MaxBooks}

FilterInit ==
  /\ SearchIdle
  /\ AuthIdle
  /\ SignupIdle
  /\ PageIdle
  /\ lastAction = "init"

LoadCollection == loadBooks(FilterCollections)

TypeQuery == setSearchQuery(StringsUpTo(MaxQueryLen))

FilterNext ==
  \/ LoadCollection
  \/ TypeQuery

FilterSpec == FilterInit /\ [][FilterNext]_vars

\* the dashboard after mount: the four queries are fetching
DashInit ==
  /\ queries = [q \in QueryKeys |-> fetchStarted(IdleQuery)]
  /\ alerts = <<>>
  /\ alertsLoading = FALSE
  /\ card = NoCard
  /\ BarIdle
  /\ ServerIdle
  /\ SearchIdle
  /\ AuthIdle
  /\ SignupIdle
  /\ lastAction = "init"

DashNext ==
  \/ Refetch
  \/ FetchOk
  \/ FetchFail

DashSpec == DashInit /\ [][DashNext]_vars

\* an AlertsCard about to render with any list of alerts
AlertsInit ==
  /\ queries = [q \in QueryKeys |-> IdleQuery]
  /\ alerts \in AlertLists
  /\ alertsLoading \in BOOLEAN
  /\ card = NoCard
  /\ BarIdle
  /\ ServerIdle
  /\ SearchIdle
  /\ AuthIdle
  /\ SignupIdle
  /\ lastAction = "init"

AlertsNext ==
  \/ RenderAlertsCard
  \/ UpdateAlertsCard

AlertsSpec == AlertsInit /\ [][AlertsNext]_vars

\* the search page with its search bar after mount, opened without
\* parameters: loadBooks() is in flight
BarInit ==
  /\ books = <<>>
  /\ booksReq = "pending"
  /\ searchQuery = <<>>
  /\ selectedBook = NoBook
  /\ similarBooks = <<>>
  /\ loading = FALSE
  /\ isInitialized = FALSE
  /\ url = EmptyUrl
  /\ navQueue = <<>>
  /\ simReqs = <<>>
  /\ BarIdle
  /\ DashIdle
  /\ ServerIdle
  /\ AuthIdle
  /\ SignupIdle
  /\ lastAction = "init"

BarNext ==
  \/ BarBooksLoaded
  \/ OnSearchChange
  \/ InputFocus
  \/ Escape
  \/ ArrowDown
  \/ ArrowUp
  \/ EnterInInput
  \/ BarSimilarOk
  \/ BarSimilarFail
  \/ BarNavCommit

BarSpec == BarInit /\ [][BarNext]_vars

\* a browser on the home page, with or without a cookie, session not yet checked
ServerInit ==
  /\ cookie \in {"none", "valid", "stale"}
  /\ held = "unknown"
  /\ pendingNav = "none"
  /\ rendered = "home"
  /\ routePos = RouteIdle
  /\ result = NoResult
  /\ DashIdle
  /\ BarIdle
  /\ SearchIdle
  /\ AuthIdle
  /\ SignupIdle
  /\ lastAction = "init"

ServerNext ==
  \/ RouteStart
  \/ BackendResponds
  \/ RouteReturn
  \/ RouteCatch
  \/ SessionCheck
  \/ TokenRejected
  \/ PushLogin
  \/ PushDashboard
  \/ middleware
  \/ LoginPage
  \/ HomePage
  \/ LoginOk

ServerSpec == ServerInit /\ [][ServerNext]_vars

(***************************************************************************)
(* Properties                                                              *)
(***************************************************************************)

\* C1: once every similarity fetch has settled, the similarity list is the
\* answer for the book selected last (or empty when that fetch failed), never
\* the answer for a book selected earlier.
C1_LastSelectionWins ==
  (simReqs = <<>> /\ selectedBook # NoBook)
    => similarBooks \in {SimilarOf(selectedBook.id), <<>>}

\* C2: right after logout() the cache holds no favorite-check entry, the
\* favorite-check query is disabled and the button shows its initial hint.
C2_NoFavoriteAfterLogout ==
  lastAction = "logoutOk"
    => /\ cache = {}
       /\ ~checkEnabled(user)
       /\ isFavorite = initialIsFavorite

\* C3: no cache entry fetched for one user is present while a different user
\* is the current one.
C3_NoForeignCacheEntry ==
  \A e \in cache : user # NoUser => e.owner = user

\* C4: from the moment the user triggers logout the session is unauthenticated
\* and the cache is empty, whatever the server-side call does.
C4_LogoutImmediate ==
  lastAction \in {"handleLogout", "logoutOk", "logoutRejected", "logoutError"}
    => (user = NoUser /\ cache = {})

\* two characters that differ at most in case
SameLetter(a, b) == a = b \/ {a, b} = {"d", "D"} \/ {a, b} = {"a", "A"}

\* q occurs in s as a substring, case ignored
ContainsIgnoringCase(s, q) ==
  \E k \in 0..(Len(s) - Len(q)) : \A j \in 1..Len(q) : SameLetter(s[k + j], q[j])

\* positions of the collection whose title or author contains the query
MatchingPositions ==
  {i \in 1..Len(books) : \/ ContainsIgnoringCase(books[i].title, searchQuery)
                         \/ ContainsIgnoringCase(books[i].author, searchQuery)}

\* the k-th smallest matching position
NthMatch(k) ==
  CHOOSE i \in MatchingPositions : Cardinality({j \in MatchingPositions : j <= i}) = k

Blank(q) == \A i \in 1..Len(q) : q[i] = " "

\* C5: filteredBooks is empty for an empty or all-whitespace query; otherwise
\* it is the first 10 books, in collection order, whose title or author
\* contains the query as a substring, case ignored.
C5_FilterFirstTen ==
  IF Blank(searchQuery)
  THEN filteredBooks = <<>>
  ELSE /\ Len(filteredBooks) =
            (IF Cardinality(MatchingPositions) < 10 THEN Cardinality(MatchingPositions) ELSE 10)
       /\ \A k \in 1..Len(filteredBooks) : filteredBooks[k] = books[NthMatch(k)]

\* C5 witness: more than 10 books match a query with an upper-case letter,
\* and the list is cut to 10
C5_Witness ==
  /\ Cardinality(MatchingPositions) > 10
  /\ Len(filteredBooks) = 10
  /\ \E i \in 1..Len(searchQuery) : searchQuery[i] = "D"

Cleared == searchQuery = <<>> /\ selectedBook = NoBook /\ similarBooks = <<>>

\* C6: reset() leaves query, selection and similarity list cleared, and no
\* later navigation commit or similarity answer takes the coordinator out of
\* the cleared state.
C6_ResetClears ==
  [][ /\ (lastAction' = "reset" => Cleared')
      /\ ((lastAction' \in {"similarOk", "similarFail", "navCommit"} /\ Cleared) => Cleared')
    ]_vars

\* C7: every step that selects a book (and so issues a similarity fetch)
\* leaves that book selected and the query equal to its title.
C7_SelectSetsTitle ==
  [][ Len(simReqs') > Len(simReqs)
        => (selectedBook' # NoBook /\ searchQuery' = selectedBook'.title) ]_vars

\* C8: a failed similarity fetch empties the similarity list, ends with
\* loading = false and leaves the selection and the query as they were.
C8_FailedFetch ==
  [][ lastAction' = "similarFail"
        => /\ similarBooks' = <<>>
           /\ loading' = FALSE
           /\ selectedBook' = selectedBook
           /\ searchQuery' = searchQuery ]_vars

\* C8 witness: a fetch has failed while a book is selected
C8_Witness ==
  /\ lastAction = "similarFail"
  /\ selectedBook # NoBook
  /\ searchQuery = selectedBook.title
  /\ similarBooks = <<>>
  /\ ~loading

\* C9: handleSearch selects the first candidate and requests its similar
\* books with limit 12 exactly when no book is selected and there is a
\* candidate; otherwise it changes nothing and requests nothing.
C9_HandleSearch ==
  [][ lastAction' = "handleSearch"
        => IF selectedBook = NoBook /\ Len(filteredBooks) > 0
           THEN /\ selectedBook' = filteredBooks[1]
                /\ simReqs' = Append(simReqs, [bookId |-> filteredBooks[1].id, limit |-> 12])
           ELSE UNCHANGED searchVars ]_vars

\* C9 witness: handleSearch has selected the candidate of a typed query
C9_Witness ==
  /\ lastAction = "handleSearch"
  /\ selectedBook # NoBook
  /\ simReqs = <<[bookId |-> selectedBook.id, limit |-> 12]>>
  /\ navQueue # <<>>

HexDigits == {"0", "1", "2", "3", "4", "5", "6", "7", "8", "9", "A", "B", "C", "D", "E", "F"}

\* the character a percent escape stands for
Unescaped(h1, h2) ==
  IF <<h1, h2>> = <<"2", "F">> THEN "/"
  ELSE IF <<h1, h2>> = <<"2", "0">> THEN " "
  ELSE IF <<h1, h2>> = <<"2", "5">> THEN "%"
  ELSE "?"

\* percent-decoding
RECURSIVE PercentDecode(_)
PercentDecode(e) ==
  IF e = <<>> THEN <<>>
  ELSE IF Head(e) = "%" /\ Len(e) >= 3
       THEN <<Unescaped(e[2], e[3])>> \o PercentDecode(SubSeq(e, 4, Len(e)))
       ELSE <<Head(e)>> \o PercentDecode(Tail(e))

\* e is a URL encoding of path: no reserved character appears raw, every
\* "%" starts an escape, and decoding gives the path back
IsUrlEncodingOf(e, path) ==
  /\ \A i \in 1..Len(e) : e[i] \notin {"/", " ", "?", "&", "=", "#"}
  /\ \A i \in 1..Len(e) : e[i] = "%" =>
        (i + 2 <= Len(e) /\ e[i + 1] \in HexDigits /\ e[i + 2] \in HexDigits)
  /\ PercentDecode(e) = path

LoginPrefix == <<"/", "l", "o", "g", "i", "n", "?", "r", "e", "d", "i", "r", "e", "c", "t", "=">>

\* C10: a click on the favorite toggle while user = null pushes
\* /login?redirect=<URL-encoded current path>, starts no add/remove request
\* and changes no favorite state.
C10_UnauthenticatedClick ==
  [][ (lastAction' = "handleClick" /\ user = NoUser)
        => /\ Len(pushed') >= Len(LoginPrefix)
           /\ SubSeq(pushed', 1, Len(LoginPrefix)) = LoginPrefix
           /\ IsUrlEncodingOf(SubSeq(pushed', Len(LoginPrefix) + 1, Len(pushed')), pathname)
           /\ mutation' = NoMutation
           /\ UNCHANGED <<optimisticFavorite, cache, checkReqs, isAnimating, user>> ]_vars

\* C10 witness: the click on /book/42 has pushed /login?redirect=%2Fbook%2F42
C10_Witness ==
  /\ lastAction = "handleClick"
  /\ user = NoUser
  /\ pathname = <<"/", "b", "o", "o", "k", "/", "4", "2">>
  /\ pushed = LoginPrefix \o <<"%", "2", "F", "b", "o", "o", "k", "%", "2", "F", "4", "2">>
  /\ mutation = NoMutation

\* C11: from an authenticated click until its add/remove request settles, the
\* displayed favorite boolean is the negation of the one displayed before the
\* click, whether or not the favorite-check value is loaded.
C11_OptimisticFlip ==
  mutation # NoMutation => isFavorite = ~mutation.was

\* C12: when the add/remove request fails, the displayed favorite boolean is
\* again the one displayed before the click and the control is enabled.
C12_RollbackOnFailure ==
  [][ lastAction' = "mutationFail"
        => (isFavorite' = mutation.was /\ ~isProcessing') ]_vars

\* C13: a click while a request is in flight starts no second request, and
\* after a request settles the displayed favorite boolean is its outcome:
\* favorite after a successful add, not favorite after a successful remove,
\* the value before the click after a failure.
C13_TogglesSerialize ==
  [][ /\ ((lastAction' = "handleClick" /\ isProcessing) => mutation' = mutation)
      /\ (lastAction' = "mutationOk" => isFavorite' = (mutation.kind = "add"))
      /\ (lastAction' = "mutationFail" => isFavorite' = mutation.was) ]_vars

\* C14: no two similarity requests for the same book and limit are in flight
\* at the same time.
C14_OneRequestPerKey ==
  \A i, j \in 1..Len(simReqs) : simReqs[i] = simReqs[j] => i = j

\* the decimal numeral of a catalog id
Decimal(n) == IF n = 1 THEN <<"1">> ELSE IF n = 2 THEN <<"2">> ELSE <<"3">>

\* C15: selectBook(b) pushes a location whose bookId is the numeral of b.id,
\* whose search is b.title and which keeps every other parameter of the
\* current location; the push becomes the location when it is committed.
C15_SelectBookUrl ==
  [][ /\ (\/ lastAction' = "selectBook"
          \/ (lastAction' = "handleSearch" /\ selectedBook' # selectedBook))
        => LET t == navQueue'[Len(navQueue')]
           IN /\ Len(navQueue') = Len(navQueue) + 1
              /\ {"bookId", "search"} \subseteq DOMAIN t
              /\ t["bookId"] = Decimal(selectedBook'.id)
              /\ t["search"] = selectedBook'.title
              /\ \A k \in DOMAIN url \ {"bookId", "search"} :
                    k \in DOMAIN t /\ t[k] = url[k]
      /\ lastAction' = "navCommit" => url' = Head(navQueue) ]_vars

\* C15 witness: a selection made at ?bookId=9&tab=a has been committed and
\* the location carries the book, its title and tab=a
C15_Witness ==
  /\ lastAction = "navCommit"
  /\ selectedBook # NoBook
  /\ DOMAIN url = {"bookId", "search", "tab"}
  /\ url["bookId"] = Decimal(selectedBook.id)
  /\ url["search"] = selectedBook.title
  /\ url["tab"] = <<"a">>

\* C16: when the collection arrives on a page opened with a bookId
\* parameter, the book with that id is selected and its similar books are
\* requested (nothing is selected when no book has that id), and no location
\* is pushed.
C16_RestoreFromUrl ==
  [][ (lastAction' = "loadBooksOk" /\ Len(books') > 0 /\ getParam(url, "bookId") # <<>>)
        => /\ navQueue' = navQueue
           /\ IF \E i \in 1..Len(books') : Decimal(books'[i].id) = url["bookId"]
              THEN /\ Decimal(selectedBook'.id) = url["bookId"]
                   /\ \E i \in 1..Len(books') : books'[i] = selectedBook'
                   /\ simReqs' = <<[bookId |-> selectedBook'.id, limit |-> 12]>>
              ELSE /\ selectedBook' = NoBook
                   /\ simReqs' = <<>> ]_vars

\* C16 witness: the page opened at ?bookId=2 has restored book 2
C16_Witness ==
  /\ lastAction = "loadBooksOk"
  /\ getParam(url, "bookId") = <<"2">>
  /\ selectedBook = BookAt(2)
  /\ simReqs = <<[bookId |-> 2, limit |-> 12]>>
  /\ navQueue = <<>>

\* C17: with a server-provided user the first state is authenticated and no
\* session check is issued; without one the first state is loading and the
\* mount issues exactly one session check.
C17_InitialSession ==
  /\ (lastAction = "init" /\ user # NoUser) => authReqs = <<>>
  /\ (lastAction = "init" /\ user = NoUser) => authLoading
  /\ lastAction = "mount" => Len(authReqs) = (IF user = NoUser THEN 1 ELSE 0)

\* C18: a failed session check leaves user = null, loading = false and the
\* cache empty, and starts no new request; every fetchUser call issues
\* exactly one request.
C18_FailedSessionCheck ==
  [][ /\ lastAction' \in {"fetchUserDenied", "fetchUserError"}
        => /\ user' = NoUser
           /\ ~authLoading'
           /\ cache' = {}
           /\ Len(authReqs') = Len(authReqs) - 1
      /\ lastAction' = "refreshUser" => Len(authReqs') = Len(authReqs) + 1 ]_vars

\* C18 witness: a session check has been refused and none is in flight
C18_Witness ==
  /\ lastAction = "fetchUserDenied"
  /\ user = NoUser
  /\ ~authLoading
  /\ cache = {}
  /\ authReqs = <<>>

\* C19: once the book list has loaded and no push or similarity fetch is
\* outstanding, a book is selected exactly when the location's bookId is the
\* id of a book of the collection, and that book is the selected one.
C19_UrlInSync ==
  (booksReq = "done" /\ navQueue = <<>> /\ simReqs = <<>>)
    => LET named == {i \in 1..Len(books) : Decimal(books[i].id) = getParam(url, "bookId")}
       IN /\ (selectedBook # NoBook) = (named # {})
          /\ \A i \in named : selectedBook = books[i]

\* C20: once the signup form is unmounted its redirect timer is not pending,
\* and nothing it started pushes a location.
C20_NoEffectAfterUnmount ==
  [][ /\ ~formMounted' => ~redirectTimer'
      /\ ~formMounted => pushed' = pushed ]_vars

\* the retries the claim allows per fetch
RetryLimit == [status |-> 2, monitor |-> 2, alerts |-> 2, logs |-> 1]

C22_RedirectOnlyOnSuccess ==
  [][ /\ lastAction' = "logoutOk" => pushed' = <<"/", "l", "o", "g", "i", "n">>
      /\ lastAction' \in {"logoutRejected", "logoutError"}
           => (pushed' = pushed /\ ~isLoggingOut')
      /\ (pushed' = <<"/", "l", "o", "g", "i", "n">> /\ pushed' # pushed)
           => lastAction' = "logoutOk" ]_vars

\* C22 witness: the logout call was refused, nothing was pushed and the
\* control is enabled again
C22_Witness ==
  /\ lastAction = "logoutRejected"
  /\ user # NoUser
  /\ pushed = NoPush
  /\ ~isLoggingOut

\* C23: a submit with a password shorter than 8, longer than 72 or different
\* from its confirmation sets an error and sends no request; otherwise the
\* request is sent.
C23_ValidationBeforeRequest ==
  [][ lastAction' = "onSubmit"
        => IF Len(password) < 8 \/ Len(password) > 72 \/ password # confirmPassword
           THEN error' # "" /\ ~isPending'
           ELSE error' = "" /\ isPending' ]_vars

\* C23 witness: a password of more than 72 characters, equal to its
\* confirmation, was submitted and refused
C23_Witness ==
  /\ lastAction = "onSubmit"
  /\ Len(password) > 72
  /\ password = confirmPassword
  /\ error # ""
  /\ ~isPending

\* C24: the critical badge shows the number of critical alerts and is hidden
\* when there is none, the total badge shows the length of the list, and the
\* critical number is at most the total.
C24_AlertBadges ==
  (card.rendered /\ ~card.skeleton)
    => LET n == Cardinality({i \in DOMAIN alerts : alerts[i].severity = "critical"})
       IN /\ card.criticalBadge = IF n = 0 THEN <<>> ELSE <<n>>
          /\ card.totalBadge = Len(alerts)
          /\ n <= card.totalBadge

\* C24 witness: 3 alerts with one critical show 1 and 3
C24_Witness ==
  /\ card.rendered
  /\ Len(alerts) = 3
  /\ Cardinality({i \in DOMAIN alerts : alerts[i].severity = "critical"}) = 1
  /\ card.criticalBadge = <<1>>
  /\ card.totalBadge = 3

\* C25: a session check that was in flight when logout() ran does not
\* restore the user when it resolves.
C25_NoRestoreAfterLogout ==
  [][ (lastAction = "logoutOk" /\ lastAction' = "fetchUserOk") => user' = NoUser ]_vars

\* C26: loading is true exactly while a similarity fetch is outstanding.
C26_LoadingWhileFetching ==
  loading = (simReqs # <<>>)

\* C27: one press of Enter in the input while the dropdown is open makes
\* exactly one selection (one similarity fetch, one push), and the book
\* selected is the highlighted candidate.
C27_EnterSelectsOnce ==
  [][ (lastAction' = "enterInInput" /\ isDropdownVisible /\ Len(filteredBooks) > 0)
        => /\ Len(simReqs') = Len(simReqs) + 1
           /\ Len(navQueue') = Len(navQueue) + 1
           /\ selectedIndex + 1 \in DOMAIN filteredBooks
           /\ selectedBook' = filteredBooks[selectedIndex + 1] ]_vars

\* C29: while the dropdown is shown with candidates, selectedIndex lies in
\* 0 .. length - 1; ArrowDown on the last candidate and ArrowUp on the first
\* change nothing; Enter selects nothing that is not a candidate.
C29_IndexInRange ==
  [][ /\ (isDropdownVisible' /\ Len(filteredBooks') > 0)
        => (0 <= selectedIndex' /\ selectedIndex' <= Len(filteredBooks') - 1)
      /\ lastAction' = "arrowDown"
        => selectedIndex' = IF selectedIndex = Len(filteredBooks) - 1
                            THEN selectedIndex ELSE selectedIndex + 1
      /\ lastAction' = "arrowUp"
        => selectedIndex' = IF selectedIndex = 0 THEN 0 ELSE selectedIndex - 1
      /\ lastAction' = "enterInInput"
        => \/ selectedBook' = selectedBook
           \/ \E k \in DOMAIN filteredBooks : selectedBook' = filteredBooks[k] ]_vars

\* C29 witness: ArrowDown was pressed on the last of three candidates
C29_Witness ==
  /\ lastAction = "arrowDown"
  /\ isDropdownVisible
  /\ Len(filteredBooks) = 3
  /\ selectedIndex = 2

\* C28: when the client holds the user as unauthenticated and navigates to
\* /login, the login form is rendered, whatever the cookie.
C28_LoginReachable ==
  [][ (lastAction' = "loginPage" /\ held = "unauthenticated")
        => rendered' = "loginForm" ]_vars

\* C30: every response of the logout route handler deletes the cookie: with
\* the backend's status when the body was read, with 500 when the backend
\* call or the parsing threw.
C30_CookieAlwaysDeleted ==
  [][ /\ lastAction' = "routeReturn"
        => /\ result'.status = routePos.status
           /\ result'.deleted
           /\ cookie' = "none"
      /\ lastAction' = "routeCatch"
        => /\ result'.status = 500
           /\ result'.deleted
           /\ cookie' = "none" ]_vars

\* C30 witness: the backend answered with an error status, the handler
\* passed it on and the cookie is gone
C30_Witness ==
  /\ lastAction = "routeReturn"
  /\ result.status = 401
  /\ result.deleted
  /\ cookie = "none"

====
